---- MODULE Spec2Model ----
(***************************************************************************)
(* Model of the BOG release decision engine (src/fuzzy.py, src/rules.py):  *)
(* the Fermatean fuzzy set value type, the FFLDWA aggregator, the rule     *)
(* engine of BOGReleaseRules, and the FF-SWARA weighter of the             *)
(* specification.                                                          *)
(*                                                                         *)
(* Python floats are binary floating-point numbers: every arithmetic       *)
(* operation returns the representable number nearest to the exact result  *)
(* (ties to even).  The model keeps that arithmetic and shortens the       *)
(* significand from 53 bits to P bits, so that x ** (1/3) followed by      *)
(* ** 3 is not the identity and a sum depends on the order of its terms,   *)
(* as in the program.                                                      *)
(***************************************************************************)
EXTENDS Integers, Sequences, FiniteSets

\* Bits of the significand of a float (53 in the program).
P == 7

\* Longest criteria list drawn as an input (besides the five-criterion lists),
\* and longest list aggregated in two orders.
MaxLen == 3

\* Longest ffs_list given to aggregate with arbitrary weights.
MaxAgg == 2

\* Concurrent callers sharing one BOGReleaseRules instance.
NCallers == 2

\* Longest importance-score sequence given to derive_weights.
MaxScores == 3

\* Largest importance score, in halves.
MaxScore == 4

\* Number of criteria of an assessment: range(5) in rules_with_fuzzy.
NCriteria == 5

----------------------------------------------------------------------------
(* Floating-point numbers: [m, e] stands for m * 2^e, with                 *)
(* 2^(P-1) <= m < 2^P, or m = 0 and e = 0.  Only non-negative numbers      *)
(* occur in the engine.                                                    *)

Pow2(k) == 2 ^ k

Zero == [m |-> 0, e |-> 0]

BitLen(n) == CHOOSE b \in 1..30 : Pow2(b - 1) <= n /\ n < Pow2(b)

\* The float nearest to n * 2^e (n >= 0), ties to even.
Round(n, e) ==
    IF n = 0 THEN Zero
    ELSE LET b == BitLen(n) IN
         IF b <= P THEN [m |-> n * Pow2(P - b), e |-> e - (P - b)]
         ELSE LET s    == b - P
                  q    == n \div Pow2(s)
                  r    == n % Pow2(s)
                  half == Pow2(s - 1)
                  up   == r > half \/ (r = half /\ q % 2 = 1)
                  q2   == IF up THEN q + 1 ELSE q
              IN  IF q2 = Pow2(P) THEN [m |-> Pow2(P - 1), e |-> e + s + 1]
                  ELSE [m |-> q2, e |-> e + s]

\* The float a decimal literal n/d denotes, and the quotient of the exact
\* integers n and d (1/len(...)): n/d correctly rounded.
FromRat(n, d) ==
    IF n = 0 THEN Zero
    ELSE LET k  == CHOOSE j \in 0..(P + 12) :
                       /\ (n * Pow2(j)) \div d >= Pow2(P + 1)
                       /\ \A i \in 0..(j - 1) : (n * Pow2(i)) \div d < Pow2(P + 1)
             q  == (n * Pow2(k)) \div d
             st == IF (n * Pow2(k)) % d = 0 THEN 0 ELSE 1
         IN  Round(2 * q + st, -k - 1)

One == FromRat(1, 1)

\* a <= b and a < b on floats.
FLeq(a, b) ==
    \/ a.m = 0
    \/ /\ b.m # 0
       /\ \/ a.e < b.e
          \/ a.e = b.e /\ a.m <= b.m

FLt(a, b) == FLeq(a, b) /\ a # b

\* a * b
FMul(a, b) == Round(a.m * b.m, a.e + b.e)

\* a + b
FAdd(a, b) ==
    IF a.m = 0 THEN b
    ELSE IF b.m = 0 THEN a
    ELSE LET hi == IF a.e >= b.e THEN a ELSE b
             lo == IF a.e >= b.e THEN b ELSE a
             d  == hi.e - lo.e
         IN  IF d > P + 1 THEN hi
             ELSE Round(hi.m * Pow2(d) + lo.m, lo.e)

\* a - b, for a >= b
FSub(a, b) ==
    IF b.m = 0 THEN a
    ELSE LET d == a.e - b.e
         IN  IF d > P + 1 THEN a
             ELSE Round(a.m * Pow2(d) - b.m, b.e)

\* a / 2
FHalf(a) == IF a.m = 0 THEN Zero ELSE [m |-> a.m, e |-> a.e - 1]

\* a ** 3
FCube(a) == Round(a.m * a.m * a.m, 3 * a.e)

\* a ** (1/3): the library's pow, modelled as the correctly rounded cube root.
FCbrt(a) ==
    IF a.m = 0 THEN Zero
    ELSE LET s  == CHOOSE t \in {2 * P - 2, 2 * P - 1, 2 * P} : (a.e - t) % 3 = 0
             k  == (a.e - s) \div 3
             M  == a.m * Pow2(s)
             r0 == CHOOSE r \in Pow2(P - 1)..(Pow2(P) - 1) :
                       r * r * r <= M /\ M < (r + 1) * (r + 1) * (r + 1)
             up == 8 * (M - r0 * r0 * r0) > 12 * r0 * r0 + 6 * r0 + 1
             r1 == IF up THEN r0 + 1 ELSE r0
         IN  IF r1 = Pow2(P) THEN [m |-> Pow2(P - 1), e |-> k + 1]
             ELSE [m |-> r1, e |-> k]

----------------------------------------------------------------------------
(* Exceptions and results.  An operation either returns a value or raises. *)

RangeError ==
    [exc |-> "ValueError",
     msg |-> "Membership and non-membership degrees must be in [0, 1]."]

FermateanError ==
    [exc |-> "ValueError",
     msg |-> "Fermatean Fuzzy condition violated: mu^3 + nu^3 must be <= 1."]

LengthError ==
    [exc |-> "ValueError",
     msg |-> "Length of ffs_list and weights must be the same."]

ZeroDivisionError == [exc |-> "ZeroDivisionError", msg |-> "division by zero"]

Ok(v) == [ok |-> TRUE, val |-> v]

Raise(err) == [ok |-> FALSE, err |-> err]

----------------------------------------------------------------------------
(* src/fuzzy.py *)

\* FermateanFuzzySet.__init__: the object, or the ValueError it raises.
FermateanFuzzySet(mu, nu) ==
    IF ~(FLeq(Zero, mu) /\ FLeq(mu, One) /\ FLeq(Zero, nu) /\ FLeq(nu, One))
    THEN Raise(RangeError)
    ELSE IF FLt(One, FAdd(FCube(mu), FCube(nu)))
    THEN Raise(FermateanError)
    ELSE Ok([mu |-> mu, nu |-> nu])

\* Score with squares in place of cubes (the Pythagorean score).
ScoreSquares(f) == FHalf(FSub(FAdd(One, FMul(f.mu, f.mu)), FMul(f.nu, f.nu)))

\* FermateanFuzzySet.score
Score(f) == FHalf(FSub(FAdd(One, FCube(f.mu)), FCube(f.nu)))

\* np.sum of a short list: the terms added from left to right.
RECURSIVE NpSum(_)
NpSum(terms) ==
    IF Len(terms) = 0 THEN Zero
    ELSE FAdd(NpSum(SubSeq(terms, 1, Len(terms) - 1)), terms[Len(terms)])

\* The pair (mu_agg, nu_agg) FFLDWA.aggregate computes from lists of equal length.
AggPair(ffs_list, weights) ==
    LET mu_cube_sum ==
            NpSum([i \in 1..Len(ffs_list) |-> FMul(weights[i], FCube(ffs_list[i].mu))])
        nu_cube_sum ==
            NpSum([i \in 1..Len(ffs_list) |-> FMul(weights[i], FCube(ffs_list[i].nu))])
    IN  [mu |-> FCbrt(mu_cube_sum), nu |-> FCbrt(nu_cube_sum)]

\* aggregate that clips the pair into [0, 1] instead of validating it.
AggregateClipped(ffs_list, weights) ==
    IF Len(ffs_list) # Len(weights) THEN Raise(LengthError)
    ELSE LET agg == AggPair(ffs_list, weights)
         IN  Ok([mu |-> IF FLeq(agg.mu, One) THEN agg.mu ELSE One,
                 nu |-> IF FLeq(agg.nu, One) THEN agg.nu ELSE One])

\* FFLDWA.aggregate
Aggregate(ffs_list, weights) ==
    IF Len(ffs_list) # Len(weights) THEN Raise(LengthError)
    ELSE LET agg == AggPair(ffs_list, weights)
         IN  FermateanFuzzySet(agg.mu, agg.nu)

----------------------------------------------------------------------------
(* src/rules.py *)

\* BOGReleaseRules.__init__: the instance's fields.
BOGReleaseRules ==
    [safe_pressure_threshold       |-> FromRat(5, 10),
     warning_pressure_threshold    |-> FromRat(6, 10),
     high_risk_pressure_threshold  |-> FromRat(7, 10),
     prohibited_pressure_threshold |-> FromRat(8, 10)]

\* map_risk_level with exclusive lower bounds.
MapRiskLevelStrict(risk_score) ==
    IF FLt(FromRat(8, 10), risk_score) THEN "Prohibited"
    ELSE IF FLt(FromRat(6, 10), risk_score) THEN "High Risk"
    ELSE IF FLt(FromRat(4, 10), risk_score) THEN "Warning"
    ELSE "Safe"

\* map_risk_level that names the second level "HighRisk", a name no rule tests.
MapRiskLevelUntestedName(risk_score) ==
    IF FLeq(FromRat(8, 10), risk_score) THEN "Prohibited"
    ELSE IF FLeq(FromRat(6, 10), risk_score) THEN "HighRisk"
    ELSE IF FLeq(FromRat(4, 10), risk_score) THEN "Warning"
    ELSE "Safe"

\* BOGReleaseRules.map_risk_level
MapRiskLevel(risk_score) ==
    IF FLeq(FromRat(8, 10), risk_score) THEN "Prohibited"
    ELSE IF FLeq(FromRat(6, 10), risk_score) THEN "High Risk"
    ELSE IF FLeq(FromRat(4, 10), risk_score) THEN "Warning"
    ELSE "Safe"

Decision(should_release, reason) ==
    [should_release |-> should_release, reason |-> reason]

\* The rules with a Prohibited branch that releases at the prohibited pressure.
ApplyRulesProhibitedByPressure(self, tank_pressure, risk_level) ==
    IF risk_level = "Prohibited"
    THEN IF FLeq(self.prohibited_pressure_threshold, tank_pressure)
         THEN Decision(TRUE, "Prohibited location or weather condition")
         ELSE Decision(FALSE, "Prohibited location or weather condition")
    ELSE IF risk_level = "High Risk"
    THEN IF FLeq(self.high_risk_pressure_threshold, tank_pressure)
         THEN Decision(TRUE, "High-risk location")
         ELSE Decision(FALSE, "Pressure below high-risk threshold")
    ELSE IF risk_level = "Warning"
    THEN IF FLeq(self.warning_pressure_threshold, tank_pressure)
         THEN Decision(TRUE, "Warning location")
         ELSE Decision(FALSE, "Pressure below warning threshold")
    ELSE IF FLeq(self.safe_pressure_threshold, tank_pressure)
         THEN Decision(TRUE, "Safe location")
         ELSE Decision(FALSE, "Pressure below safe threshold")

\* The rules with strict pressure comparisons.
ApplyRulesStrict(self, tank_pressure, risk_level) ==
    IF risk_level = "Prohibited"
    THEN Decision(FALSE, "Prohibited location or weather condition")
    ELSE IF risk_level = "High Risk"
    THEN IF FLt(self.high_risk_pressure_threshold, tank_pressure)
         THEN Decision(TRUE, "High-risk location")
         ELSE Decision(FALSE, "Pressure below high-risk threshold")
    ELSE IF risk_level = "Warning"
    THEN IF FLt(self.warning_pressure_threshold, tank_pressure)
         THEN Decision(TRUE, "Warning location")
         ELSE Decision(FALSE, "Pressure below warning threshold")
    ELSE IF FLt(self.safe_pressure_threshold, tank_pressure)
         THEN Decision(TRUE, "Safe location")
         ELSE Decision(FALSE, "Pressure below safe threshold")

\* Step 3 of evaluate_release_conditions: the rules on (risk_level, tank_pressure).
ApplyRules(self, tank_pressure, risk_level) ==
    IF risk_level = "Prohibited"
    THEN Decision(FALSE, "Prohibited location or weather condition")
    ELSE IF risk_level = "High Risk"
    THEN IF FLeq(self.high_risk_pressure_threshold, tank_pressure)
         THEN Decision(TRUE, "High-risk location")
         ELSE Decision(FALSE, "Pressure below high-risk threshold")
    ELSE IF risk_level = "Warning"
    THEN IF FLeq(self.warning_pressure_threshold, tank_pressure)
         THEN Decision(TRUE, "Warning location")
         ELSE Decision(FALSE, "Pressure below warning threshold")
    ELSE IF risk_level = "Safe"
    THEN IF FLeq(self.safe_pressure_threshold, tank_pressure)
         THEN Decision(TRUE, "Safe location")
         ELSE Decision(FALSE, "Pressure below safe threshold")
    ELSE Decision(FALSE, "No release conditions met")

\* Step 1 of evaluate_release_conditions: the uniform weights and the aggregate.
UniformAggregate(aggregated_risk_scores) ==
    IF Len(aggregated_risk_scores) = 0 THEN Raise(ZeroDivisionError)
    ELSE Aggregate(aggregated_risk_scores,
                   [i \in 1..Len(aggregated_risk_scores) |->
                        FromRat(1, Len(aggregated_risk_scores))])

\* evaluate_release_conditions run alone, start to end, on a fresh instance.
EvaluateAlone(tank_pressure, aggregated_risk_scores) ==
    LET overall_risk == UniformAggregate(aggregated_risk_scores)
    IN  IF ~overall_risk.ok THEN overall_risk
        ELSE Ok(ApplyRules(BOGReleaseRules, tank_pressure,
                           MapRiskLevel(Score(overall_risk.val))))

----------------------------------------------------------------------------
(* FF-SWARA weighter (specification section 4.3), in exact rational        *)
(* arithmetic: [n, d] stands for n/d in lowest terms, d > 0.               *)

RECURSIVE GCD(_, _)
GCD(a, b) == IF b = 0 THEN a ELSE GCD(b, a % b)

Abs(n) == IF n < 0 THEN -n ELSE n

Rat(n, d) ==
    LET g == GCD(Abs(n), Abs(d))
        sgn == IF d < 0 THEN -1 ELSE 1
    IN  [n |-> sgn * (n \div g), d |-> sgn * (d \div g)]

RatAdd(a, b) == Rat(a.n * b.d + b.n * a.d, a.d * b.d)

RatSub(a, b) == Rat(a.n * b.d - b.n * a.d, a.d * b.d)

RatDiv(a, b) == Rat(a.n * b.d, a.d * b.n)

RatLeq(a, b) == a.n * b.d <= b.n * a.d

RECURSIVE RatSum(_)
RatSum(terms) ==
    IF Len(terms) = 0 THEN Rat(0, 1)
    ELSE RatAdd(RatSum(SubSeq(terms, 1, Len(terms) - 1)), terms[Len(terms)])

\* Step 1: the scores sorted descending (insertion into a sorted prefix).
RECURSIVE SortDescending(_)
SortDescending(scores) ==
    IF Len(scores) = 0 THEN <<>>
    ELSE LET rest == SortDescending(SubSeq(scores, 1, Len(scores) - 1))
             last == scores[Len(scores)]
             k    == Cardinality({i \in 1..Len(rest) : RatLeq(last, rest[i])})
         IN  SubSeq(rest, 1, k) \o <<last>> \o SubSeq(rest, k + 1, Len(rest))

\* Steps 2 and 3: q_1 = 1, q_i = q_{i-1} / (1 + score[i-1] - score[i]).
RECURSIVE RawWeights(_)
RawWeights(ranked) ==
    IF Len(ranked) = 1 THEN <<Rat(1, 1)>>
    ELSE LET n    == Len(ranked)
             prev == RawWeights(SubSeq(ranked, 1, n - 1))
             c_i  == RatSub(ranked[n - 1], ranked[n])
             k_i  == RatAdd(c_i, Rat(1, 1))
         IN  Append(prev, RatDiv(prev[n - 1], k_i))

ShapeError == [exc |-> "ShapeError", msg |-> "empty criteria_scores"]

\* derive_weights that divides by the number of criteria instead of the sum of q.
DeriveWeightsByCount(criteria_scores) ==
    IF Len(criteria_scores) = 0 THEN Raise(ShapeError)
    ELSE LET q == RawWeights(SortDescending(criteria_scores))
         IN  Ok([i \in 1..Len(q) |-> RatDiv(q[i], Rat(Len(q), 1))])

\* derive_weights: the normalized weights in rank order, or ShapeError.
DeriveWeights(criteria_scores) ==
    IF Len(criteria_scores) = 0 THEN Raise(ShapeError)
    ELSE LET q     == RawWeights(SortDescending(criteria_scores))
             total == RatSum(q)
         IN  Ok([i \in 1..Len(q) |-> RatDiv(q[i], total)])

----------------------------------------------------------------------------
(* Inputs *)

SeqsUpTo(S, n) == UNION {[1..k -> S] : k \in 0..n}

\* The FFS objects a caller can hold: those the constructor returns for decimal
\* literals (mu, nu) given in tenths.
FFSObjects(pairs) ==
    {FermateanFuzzySet(FromRat(p[1], 10), FromRat(p[2], 10)).val :
        p \in {q \in pairs :
                 FermateanFuzzySet(FromRat(q[1], 10), FromRat(q[2], 10)).ok}}

CriteriaFFS ==
    FFSObjects({<<9, 1>>, <<3, 6>>, <<0, 10>>, <<10, 0>>, <<5, 5>>, <<7, 3>>})

CriteriaLists ==
    SeqsUpTo(CriteriaFFS, MaxLen)
        \cup {[i \in 1..NCriteria |-> f] : f \in CriteriaFFS}

Pressures == {FromRat(n, 100) : n \in {45, 50, 55, 60, 65, 70, 75, 80, 85}}

\* Inputs of the concurrent callers.
SharedLists ==
    {<<>>} \cup {<<f>> : f \in FFSObjects({<<9, 1>>, <<7, 3>>, <<0, 10>>})}
           \cup {<<f, g>> : f \in FFSObjects({<<0, 10>>}), g \in FFSObjects({<<10, 0>>})}

SharedPressures == {FromRat(n, 100) : n \in {55, 75}}

\* Inputs of aggregate.
AggFFS == FFSObjects({<<0, 10>>, <<0, 5>>, <<9, 1>>})

AggWeights == {Zero, FromRat(1, 2), FromRat(1, 1), FromRat(2, 1)}

\* Inputs of aggregate called on a list in two orders.
PermFFS == FFSObjects({<<0, 1>>, <<0, 5>>})

PermWeights == {FromRat(1, 3), FromRat(1, 2)}

Perms(n) == {f \in [1..n -> 1..n] : \A i, j \in 1..n : f[i] = f[j] => i = j}

Permuted(seq, perm) == [i \in 1..Len(seq) |-> seq[perm[i]]]

Tenths == 0..12

Cents == 0..100

HalfScores == {Rat(k, 2) : k \in 0..MaxScore}

----------------------------------------------------------------------------
(* State *)

Callers == 1..NCallers

VARIABLES
    self,                    \* the shared BOGReleaseRules instance
    pc,                      \* where each caller is in evaluate_release_conditions
    tank_pressure,           \* each call's arguments
    aggregated_risk_scores,
    overall_risk,            \* each call's locals
    risk_level,
    outcome,                 \* what each call returned or raised
    call,                    \* the call of a single operation, and its result
    ret

vars == <<self, pc, tank_pressure, aggregated_risk_scores, overall_risk,
          risk_level, outcome, call, ret>>

engine == <<self, pc, tank_pressure, aggregated_risk_scores, overall_risk,
            risk_level, outcome>>

\* A local not yet bound.
Unbound == Raise([exc |-> "UnboundLocalError", msg |-> ""])

NoCall == [op |-> "none"]

Init ==
    /\ self = BOGReleaseRules
    /\ pc = [c \in Callers |-> "idle"]
    /\ tank_pressure = [c \in Callers |-> Zero]
    /\ aggregated_risk_scores = [c \in Callers |-> <<>>]
    /\ overall_risk = [c \in Callers |-> Unbound]
    /\ risk_level = [c \in Callers |-> ""]
    /\ outcome = [c \in Callers |-> Unbound]
    /\ call = NoCall
    /\ ret = NoCall

----------------------------------------------------------------------------
(* evaluate_release_conditions, step by step, for caller c *)

\* The call: the arguments, drawn from the given inputs, are bound.
Call(c, pressures, lists) ==
    /\ pc[c] = "idle"
    /\ \E p \in pressures, l \in lists :
          /\ tank_pressure' = [tank_pressure EXCEPT ![c] = p]
          /\ aggregated_risk_scores' = [aggregated_risk_scores EXCEPT ![c] = l]
    /\ pc' = [pc EXCEPT ![c] = "aggregate"]
    /\ UNCHANGED <<self, overall_risk, risk_level, outcome, call, ret>>

\* Step 1: overall_risk = ffldwa.aggregate(..., [1/len(...)] * len(...)).
EvalAggregate(c) ==
    /\ pc[c] = "aggregate"
    /\ LET r == UniformAggregate(aggregated_risk_scores[c])
       IN  IF r.ok
           THEN /\ overall_risk' = [overall_risk EXCEPT ![c] = r]
                /\ pc' = [pc EXCEPT ![c] = "map"]
                /\ UNCHANGED outcome
           ELSE /\ outcome' = [outcome EXCEPT ![c] = r]
                /\ pc' = [pc EXCEPT ![c] = "done"]
                /\ UNCHANGED overall_risk
    /\ UNCHANGED <<self, tank_pressure, aggregated_risk_scores, risk_level, call, ret>>

\* Step 2: risk_level = self.map_risk_level(overall_risk.score()).
EvalMap(c) ==
    /\ pc[c] = "map"
    /\ risk_level' = [risk_level EXCEPT ![c] = MapRiskLevel(Score(overall_risk[c].val))]
    /\ pc' = [pc EXCEPT ![c] = "rules"]
    /\ UNCHANGED <<self, tank_pressure, aggregated_risk_scores, overall_risk,
                   outcome, call, ret>>

\* Step 3 that also keeps the pressure it saw as the instance's safe threshold.
EvalRulesKeepsPressure(c) ==
    /\ pc[c] = "rules"
    /\ outcome' = [outcome EXCEPT ![c] =
                       Ok(ApplyRules(self, tank_pressure[c], risk_level[c]))]
    /\ self' = [self EXCEPT !.safe_pressure_threshold = tank_pressure[c]]
    /\ pc' = [pc EXCEPT ![c] = "done"]
    /\ UNCHANGED <<tank_pressure, aggregated_risk_scores, overall_risk,
                   risk_level, call, ret>>

\* Step 3: the rules read the instance's thresholds and return the decision.
EvalRules(c) ==
    /\ pc[c] = "rules"
    /\ outcome' = [outcome EXCEPT ![c] =
                       Ok(ApplyRules(self, tank_pressure[c], risk_level[c]))]
    /\ pc' = [pc EXCEPT ![c] = "done"]
    /\ UNCHANGED <<self, tank_pressure, aggregated_risk_scores, overall_risk,
                   risk_level, call, ret>>

\* The caller has taken the result: the call's frame is gone.
Finish(c) ==
    /\ pc[c] = "done"
    /\ pc' = [pc EXCEPT ![c] = "idle"]
    /\ tank_pressure' = [tank_pressure EXCEPT ![c] = Zero]
    /\ aggregated_risk_scores' = [aggregated_risk_scores EXCEPT ![c] = <<>>]
    /\ overall_risk' = [overall_risk EXCEPT ![c] = Unbound]
    /\ risk_level' = [risk_level EXCEPT ![c] = ""]
    /\ outcome' = [outcome EXCEPT ![c] = Unbound]
    /\ UNCHANGED <<self, call, ret>>

----------------------------------------------------------------------------
(* Single operations *)

\* FermateanFuzzySet(mu, nu) on decimal literals in tenths.
Construct ==
    /\ call = NoCall
    /\ \E a \in Tenths, b \in Tenths :
          /\ call' = [op |-> "FermateanFuzzySet",
                      mu |-> FromRat(a, 10), nu |-> FromRat(b, 10)]
          /\ ret' = FermateanFuzzySet(FromRat(a, 10), FromRat(b, 10))
    /\ UNCHANGED engine

\* FFLDWA.aggregate(ffs_list, weights)
AggregateCall ==
    /\ call = NoCall
    /\ \E l \in SeqsUpTo(AggFFS, MaxAgg), w \in SeqsUpTo(AggWeights, MaxAgg + 1) :
          /\ Len(w) \in {Len(l), Len(l) + 1}
          /\ call' = [op |-> "aggregate", ffs_list |-> l, weights |-> w]
          /\ ret' = Aggregate(l, w)
    /\ UNCHANGED engine

\* aggregate on (ffs_list, weights) and on the same pair permuted by perm.
AggregatePermuted ==
    /\ call = NoCall
    /\ \E k \in 1..MaxLen :
         \E l \in [1..k -> PermFFS], w \in [1..k -> PermWeights], perm \in Perms(k) :
            /\ call' = [op |-> "aggregate_permuted", ffs_list |-> l, weights |-> w,
                        perm |-> perm]
            /\ ret' = [plain    |-> Aggregate(l, w),
                       permuted |-> Aggregate(Permuted(l, perm), Permuted(w, perm))]
    /\ UNCHANGED engine

\* map_risk_level(n / 100)
MapCall ==
    /\ call = NoCall
    /\ \E n \in Cents :
          /\ call' = [op |-> "map_risk_level", cents |-> n,
                      risk_score |-> FromRat(n, 100)]
          /\ ret' = MapRiskLevel(FromRat(n, 100))
    /\ UNCHANGED engine

\* derive_weights(criteria_scores)
DeriveWeightsCall ==
    /\ call = NoCall
    /\ \E scores \in SeqsUpTo(HalfScores, MaxScores) :
          /\ call' = [op |-> "derive_weights", criteria_scores |-> scores]
          /\ ret' = DeriveWeights(scores)
    /\ UNCHANGED engine

\* The single operation has returned to its caller.
Return ==
    /\ call # NoCall
    /\ call' = NoCall
    /\ ret' = NoCall
    /\ UNCHANGED engine

----------------------------------------------------------------------------
(* Specifications *)

\* Concurrent callers of one shared instance.
Next ==
    \E c \in Callers :
        \/ Call(c, SharedPressures, SharedLists)
        \/ EvalAggregate(c)
        \/ EvalMap(c)
        \/ EvalRules(c)
        \/ Finish(c)

Spec == Init /\ [][Next]_vars

\* One caller, every input.
NextEval ==
    \/ Call(1, Pressures, CriteriaLists)
    \/ EvalAggregate(1)
    \/ EvalMap(1)
    \/ EvalRules(1)
    \/ Finish(1)

SpecEval == Init /\ [][NextEval]_vars

\* The operations of fuzzy.py, map_risk_level and derive_weights, one call at a time.
NextPure ==
    \/ Construct
    \/ AggregateCall
    \/ AggregatePermuted
    \/ MapCall
    \/ DeriveWeightsCall
    \/ Return

SpecPure == Init /\ [][NextPure]_vars

----------------------------------------------------------------------------
(* Claims *)

Literal(a, b) == FermateanFuzzySet(FromRat(a, 10), FromRat(b, 10)).val

Returned(c) == pc[c] = "done" /\ outcome[c].ok

\* 0 <= mu <= 1, 0 <= nu <= 1 and mu^3 + nu^3 <= 1
IsFermatean(f) ==
    /\ FLeq(Zero, f.mu) /\ FLeq(f.mu, One)
    /\ FLeq(Zero, f.nu) /\ FLeq(f.nu, One)
    /\ FLeq(FAdd(FCube(f.mu), FCube(f.nu)), One)

\* The call's uniform-weight aggregate exists and has a score >= 0.8.
ScoresProhibited(l) ==
    /\ Len(l) > 0
    /\ UniformAggregate(l).ok
    /\ FLeq(FromRat(8, 10), Score(UniformAggregate(l).val))

(* C1: a call whose criteria aggregate (uniform weights) to a score >= 0.8   *)
(* returns (False, "Prohibited location or weather condition") whatever the  *)
(* tank pressure, also at or above 0.8.                                      *)
C1_ProhibitedNeverReleases ==
    \A c \in Callers :
        (pc[c] = "done" /\ ScoresProhibited(aggregated_risk_scores[c]))
            => outcome[c] = Ok(Decision(FALSE, "Prohibited location or weather condition"))

C1_Witness ==
    \E c \in Callers :
        /\ pc[c] = "done"
        /\ ScoresProhibited(aggregated_risk_scores[c])
        /\ FLeq(FromRat(8, 10), tank_pressure[c])
        /\ outcome[c] = Ok(Decision(FALSE, "Prohibited location or weather condition"))

\* The policy table's row for a non-Prohibited level: threshold t, the reason
\* when released and the reason when denied.
Row(level) ==
    IF level = "High Risk"
    THEN [t |-> FromRat(7, 10), allow |-> "High-risk location",
          deny |-> "Pressure below high-risk threshold"]
    ELSE IF level = "Warning"
    THEN [t |-> FromRat(6, 10), allow |-> "Warning location",
          deny |-> "Pressure below warning threshold"]
    ELSE [t |-> FromRat(5, 10), allow |-> "Safe location",
          deny |-> "Pressure below safe threshold"]

(* C2: for a non-Prohibited risk level L the call releases exactly when the  *)
(* pressure is >= t(L) (0.7, 0.6, 0.5), with the level's reason, and         *)
(* otherwise denies with the level's "below threshold" reason.               *)
C2_PolicyTable ==
    \A c \in Callers :
        (Returned(c) /\ risk_level[c] \in {"High Risk", "Warning", "Safe"})
            => outcome[c].val =
                   IF FLeq(Row(risk_level[c]).t, tank_pressure[c])
                   THEN Decision(TRUE, Row(risk_level[c]).allow)
                   ELSE Decision(FALSE, Row(risk_level[c]).deny)

C2_Witness ==
    \E c \in Callers :
        /\ Returned(c)
        /\ risk_level[c] = "High Risk"
        /\ tank_pressure[c] = FromRat(7, 10)
        /\ outcome[c].val = Decision(TRUE, "High-risk location")

Rank(level) ==
    IF level = "Safe" THEN 0
    ELSE IF level = "Warning" THEN 1
    ELSE IF level = "High Risk" THEN 2
    ELSE 3

(* C3: map_risk_level gives Prohibited for a score >= 0.8, HighRisk for      *)
(* 0.6 <= score < 0.8, Warning for 0.4 <= score < 0.6 and Safe below 0.4,    *)
(* exactly one level per score, and a level that never falls as the score    *)
(* rises.                                                                    *)
C3_RiskBands ==
    call.op = "map_risk_level" =>
        /\ ret \in {"Safe", "Warning", "High Risk", "Prohibited"}
        /\ (ret = "Prohibited") <=> (call.cents >= 80)
        /\ (ret = "High Risk") <=> (60 <= call.cents /\ call.cents < 80)
        /\ (ret = "Warning") <=> (40 <= call.cents /\ call.cents < 60)
        /\ (ret = "Safe") <=> (call.cents < 40)
        /\ \A n \in Cents :
               n <= call.cents => Rank(MapRiskLevel(FromRat(n, 100))) <= Rank(ret)

C3_Witness ==
    /\ call.op = "map_risk_level"
    /\ call.cents = 80
    /\ ret = "Prohibited"

\* The call of the scenario: pressure 0.75, five criteria (mu = 0.3, nu = 0.6).
Scenario036(c) ==
    /\ pc[c] = "done"
    /\ tank_pressure[c] = FromRat(75, 100)
    /\ aggregated_risk_scores[c] = [i \in 1..NCriteria |-> Literal(3, 6)]

ScenarioScore == Score(UniformAggregate([i \in 1..NCriteria |-> Literal(3, 6)]).val)

(* C4, as claimed: pressure 0.75 with five criteria (0.3, 0.6) aggregates to *)
(* a score below 0.4, maps to Safe and returns (True, "Safe location").      *)
C4_AsClaimed ==
    \A c \in Callers :
        Scenario036(c) =>
            /\ FLt(ScenarioScore, FromRat(4, 10))
            /\ risk_level[c] = "Safe"
            /\ outcome[c] = Ok(Decision(TRUE, "Safe location"))

(* C4, amended: pressure 0.75 with five criteria (0.3, 0.6) aggregates to a  *)
(* score in [0.4, 0.6) (0.4055), maps to Warning and returns                 *)
(* (True, "Warning location").                                               *)
C4_ScenarioIsWarning ==
    \A c \in Callers :
        Scenario036(c) =>
            /\ FLeq(FromRat(4, 10), ScenarioScore)
            /\ FLt(ScenarioScore, FromRat(6, 10))
            /\ risk_level[c] = "Warning"
            /\ outcome[c] = Ok(Decision(TRUE, "Warning location"))

C4_Witness == \E c \in Callers : Scenario036(c) /\ outcome[c].ok

(* C5: a call with an empty criteria list fails with the error kind that     *)
(* aggregate raises for mismatched lengths, and returns no decision.         *)
C5_EmptyRaisesShapeError ==
    \A c \in Callers :
        (pc[c] = "done" /\ Len(aggregated_risk_scores[c]) = 0)
            => (~outcome[c].ok /\ outcome[c].err.exc = LengthError.exc)

(* C6: a call with a non-empty list of valid FFS returns a decision for      *)
(* every pressure: the aggregate of valid FFS is a valid FFS.                *)
C6_TotalOnValidInput ==
    \A c \in Callers :
        (pc[c] = "done" /\ Len(aggregated_risk_scores[c]) > 0
            /\ \A i \in 1..Len(aggregated_risk_scores[c]) :
                   IsFermatean(aggregated_risk_scores[c][i]))
            => outcome[c].ok

(* C7: every FFS the constructor or aggregate returns satisfies              *)
(* 0 <= mu, nu <= 1 and mu^3 + nu^3 <= 1; it is the very pair that was given *)
(* or computed, never a clipped one; and when the pair violates the          *)
(* constraint the operation raises the constructor's ValueError instead.     *)
C7_EveryFFSIsFermatean ==
    /\ call.op = "FermateanFuzzySet" =>
           /\ ret.ok => (IsFermatean(ret.val) /\ ret.val = [mu |-> call.mu, nu |-> call.nu])
           /\ ~IsFermatean([mu |-> call.mu, nu |-> call.nu])
                  => ret \in {Raise(RangeError), Raise(FermateanError)}
    /\ (call.op = "aggregate" /\ Len(call.ffs_list) = Len(call.weights)) =>
           /\ ret.ok => (IsFermatean(ret.val)
                            /\ ret.val = AggPair(call.ffs_list, call.weights))
           /\ ~IsFermatean(AggPair(call.ffs_list, call.weights))
                  => ret \in {Raise(RangeError), Raise(FermateanError)}

C7_Witness ==
    /\ call.op = "aggregate"
    /\ Len(call.ffs_list) = Len(call.weights)
    /\ Len(call.ffs_list) > 1
    /\ ~IsFermatean(AggPair(call.ffs_list, call.weights))
    /\ ret = Raise(FermateanError)

(* C8: aggregate on a permuted (ffs_list, weights) pair returns the same     *)
(* pair, or fails the same way, as on the unpermuted pair.                   *)
C8_OrderInsensitive ==
    call.op = "aggregate_permuted" => ret.plain = ret.permuted

\* In a step, a call in progress keeps its arguments, a call that ends does so
\* with the result of the same call run alone, and an ended call keeps its result.
Isolated(c) ==
    /\ (pc[c] # "idle" /\ pc'[c] # "idle") =>
           /\ tank_pressure'[c] = tank_pressure[c]
           /\ aggregated_risk_scores'[c] = aggregated_risk_scores[c]
    /\ (pc[c] # "done" /\ pc'[c] = "done") =>
           outcome'[c] = EvaluateAlone(tank_pressure'[c], aggregated_risk_scores'[c])
    /\ (pc[c] = "done" /\ pc'[c] = "done") => outcome'[c] = outcome[c]

(* C9: in every interleaving of calls on one shared instance, no step        *)
(* changes the four thresholds or a call's criteria list, and each call ends *)
(* with the result the same call gives when run alone.                       *)
C9_CallsAreIsolated ==
    [][/\ self' = self
       /\ self.safe_pressure_threshold = FromRat(5, 10)
       /\ self.warning_pressure_threshold = FromRat(6, 10)
       /\ self.high_risk_pressure_threshold = FromRat(7, 10)
       /\ self.prohibited_pressure_threshold = FromRat(8, 10)
       /\ \A c \in Callers : Isolated(c)]_vars

C9_Witness ==
    \E c, d \in Callers :
        /\ c # d
        /\ Returned(c)
        /\ pc[d] = "rules"
        /\ tank_pressure[c] # tank_pressure[d]
        /\ aggregated_risk_scores[c] # aggregated_risk_scores[d]
        /\ outcome[c].val.should_release

(* C10: derive_weights on N >= 1 scores returns N weights, each >= 0, that   *)
(* sum to 1 and do not increase along the descending-score rank order, with  *)
(* weight_i = weight_{i-1} / (1 + score[i-1] - score[i]) on the ranked       *)
(* scores.                                                                   *)
C10_SwaraWeights ==
    (call.op = "derive_weights" /\ Len(call.criteria_scores) >= 1) =>
        /\ ret.ok
        /\ Len(ret.val) = Len(call.criteria_scores)
        /\ \A i \in 1..Len(ret.val) : RatLeq(Rat(0, 1), ret.val[i])
        /\ RatSum(ret.val) = Rat(1, 1)
        /\ \A i \in 2..Len(ret.val) :
               /\ RatLeq(ret.val[i], ret.val[i - 1])
               /\ LET ranked == SortDescending(call.criteria_scores)
                  IN  ret.val[i] =
                          RatDiv(ret.val[i - 1],
                                 RatAdd(Rat(1, 1), RatSub(ranked[i - 1], ranked[i])))

C10_Witness ==
    /\ call.op = "derive_weights"
    /\ call.criteria_scores = <<Rat(1, 2), Rat(2, 1), Rat(1, 1)>>
    /\ ret.ok
    /\ ret.val[1] # ret.val[2]

\* The four level names the rule branches test, and the seven reasons of the
\* policy table.
TestedLevels == {"Prohibited", "High Risk", "Warning", "Safe"}

TableReasons ==
    {"Prohibited location or weather condition",
     "High-risk location", "Pressure below high-risk threshold",
     "Warning location", "Pressure below warning threshold",
     "Safe location", "Pressure below safe threshold"}

(* C11: a call that reaches the rules does so with one of the four level     *)
(* names the branches test, and a call that returns does so with one of the  *)
(* seven reasons of the policy table, never with                             *)
(* (False, "No release conditions met").                                     *)
C11_FallbackUnreachable ==
    \A c \in Callers :
        /\ pc[c] = "rules" => risk_level[c] \in TestedLevels
        /\ Returned(c) =>
               /\ risk_level[c] \in TestedLevels
               /\ outcome[c].val.reason \in TableReasons
               /\ outcome[c].val # Decision(FALSE, "No release conditions met")

C11_Witness ==
    \E c \in Callers :
        /\ Returned(c)
        /\ risk_level[c] = "High Risk"
        /\ ~outcome[c].val.should_release
        /\ outcome[c].val.reason = "Pressure below high-risk threshold"

====
